---- MODULE Spec2Model ----
(***************************************************************************)
(* Model of the slime compute simulation (src/src/main.rs).                *)
(*                                                                         *)
(* One frame is the fixed stage sequence of the host scheduler:            *)
(*   main world -> Extract -> Prepare -> Queue -> pipeline-cache queue     *)
(*   processing -> render graph node update -> render graph node run.      *)
(* A panic in any stage ends the program: `fatal' records the panic site   *)
(* and no action is enabled afterwards.                                    *)
(*                                                                         *)
(* The pipeline cache is outside main.rs and is the environment: it may    *)
(* report any compilation state in any frame.                              *)
(*                                                                         *)
(* Spec is the program as main.rs builds it.  main.rs implements           *)
(* RenderAsset for Slime but registers no RenderAssetPlugin::<Slime>, and  *)
(* setup is a startup system: nothing calls extract_asset or               *)
(* prepare_asset, the render world has no RenderAssets<Slime>, no second   *)
(* asset is added, and queue_bind_group panics in the first frame.         *)
(*                                                                         *)
(* SpecHost is not the program: it is the frame loop of the design         *)
(* document (resource preparation between extraction and bind-group        *)
(* construction, several assets), driving the functions of main.rs.  Its   *)
(* initial states are the program as built and the program with the        *)
(* render-asset plugin for Slime installed; with the plugin the host       *)
(* calls prepare_asset on unprepared assets in the Prepare stage (any      *)
(* subset per frame) and may add a further asset and replace SlimeHandle   *)
(* between frames.  Every behaviour of Spec is a behaviour of SpecHost.    *)
(* SpecLoader is a harness for one call of SlimeLoader::load.              *)
(***************************************************************************)
EXTENDS Integers, Sequences, FiniteSets, TLC

(* ---------------- bounds ---------------- *)
MaxFrame == 12
MaxHandles == 2
\* entries of an asset file offered to the loader
MaxEntries == 4

(* ---------------- program constants ---------------- *)
FloatSize == 4
FieldCount == 4
\* size_of::<Slime>(): four f32 fields, Pod, no hidden padding
RecordSize == FieldCount * FloatSize
\* BufferDescriptor.size in prepare_asset
BufferAllocSize == 4
\* min_binding_size of binding 0 in the bind-group layout
MinBindingSize == FloatSize * 4

Handles == 1..MaxHandles
PipelineStates == {"Queued", "Compiling", "Ok", "Err"}
NoBindGroup == [handle |-> 0, buffer |-> 0, offset |-> 0, size |-> 0]
NoWrite == [offset |-> 0, len |-> 0, size |-> 0]

VARIABLES
    pc,            \* stage about to run
    frame,         \* number of the current frame (0 before the first)
    fatal,         \* "none", or the site of the panic that ended the program
    assets,        \* main world: ids in Assets<Slime>
    mainHandle,    \* main world: SlimeHandle resource
    renderHandle,  \* render world: extracted SlimeHandle (0 before extraction)
    assetPlugin,   \* a RenderAssetPlugin::<Slime> is installed (harness only)
    store,         \* render world: RenderAssets<Slime>, handle -> GpuSlime.buffer
    nextBuf,       \* identity of the next device buffer
    lastWrite,     \* last RenderQueue::write_buffer call: offset, length, buffer size
    bindGroup,     \* render world: SlimeBindGroup resource, or NoBindGroup
    cache,         \* PipelineCache state of SlimePipeline.update_pipeline
    nodeState,     \* SlimeNode.state
    dispatches,    \* dispatch_workgroups calls recorded by the last run
    \* history variables
    observed,      \* compilation state at the most recent SlimeNode::update
    everReady,     \* the cache has reported Ok in some frame
    hist,          \* shape of the observed states: Compiling* / Compiling* Ok+ / other
    readyFrame,    \* frame of the first Ok while hist was Compiling*
    totalDispatched, \* dispatches recorded over the whole run
    built,         \* create_bind_group calls over the whole run
    published,     \* handles for which a bind group was published
    extracted,     \* handles ever extracted into the render world
    \* SlimeLoader::load, one call
    loadPc,        \* "idle" (no call), "start" (called), "done" (returned)
    loadBytes,     \* the file offered: its field entries and whether it is closed
    loadResult,    \* "none", "Ok" or "Err"
    loadCtx        \* default assets registered in the LoadContext

vars == << pc, frame, fatal, assets, mainHandle, renderHandle, assetPlugin, store,
           nextBuf, lastWrite, bindGroup, cache, nodeState, dispatches,
           observed, everReady, hist, readyFrame, totalDispatched, built,
           published, extracted, loadPc, loadBytes, loadResult, loadCtx >>

mainVars == << assets, mainHandle >>
assetVars == << assetPlugin, store, nextBuf, lastWrite >>
nodeVars == << nodeState, dispatches, observed, hist, readyFrame, totalDispatched >>
bindVars == << bindGroup, built, published >>
loaderVars == << loadPc, loadBytes, loadResult, loadCtx >>

(* ---------------- pure parts of the code ---------------- *)

\* Mutant: the Update arm falls back to Loading when the pipeline is not Ok.
SlimeNode_update_regress(state, ps) ==
    IF ps = "Ok" THEN "Update" ELSE "Loading"

\* Mutant: an errored pipeline is taken for a loaded one.
SlimeNode_update_err(state, ps) ==
    IF state = "Loading"
    THEN IF ps \in {"Ok", "Err"} THEN "Update" ELSE "Loading"
    ELSE "Update"

\* Mutant: the if-let never matches, the node stays where it is.
SlimeNode_update_stuck(state, ps) == state

\* SlimeNode::update: the new node state.
SlimeNode_update(state, ps) ==
    IF state = "Loading"
    THEN IF ps = "Ok" THEN "Update" ELSE "Loading"
    ELSE "Update"

\* PipelineCache::get_compute_pipeline is Some exactly for a pipeline in state Ok
get_compute_pipeline(ps) == ps = "Ok"

\* Mutant: the Loading arm dispatches too.
SlimeNode_run_always(state, bg, ps) ==
    IF bg = NoBindGroup
    THEN [fatal |-> "run_missing_bind_group", dispatches |-> << >>]
    ELSE IF state = "Loading"
         THEN [fatal |-> "none", dispatches |-> << <<1, 1, 1>> >>]
         ELSE IF get_compute_pipeline(ps)
              THEN [fatal |-> "none", dispatches |-> << <<1, 1, 1>> >>]
              ELSE [fatal |-> "run_unwrap_pipeline", dispatches |-> << >>]

\* Mutant: the workgroup count is derived from WORKGROUP_SIZE.
SlimeNode_run_groups(state, bg, ps) ==
    IF bg = NoBindGroup
    THEN [fatal |-> "run_missing_bind_group", dispatches |-> << >>]
    ELSE IF state = "Loading"
         THEN [fatal |-> "none", dispatches |-> << >>]
         ELSE IF get_compute_pipeline(ps)
              THEN [fatal |-> "none", dispatches |-> << <<8, 1, 1>> >>]
              ELSE [fatal |-> "run_unwrap_pipeline", dispatches |-> << >>]

\* SlimeNode::run: the panic site (or "none") and the dispatches recorded in
\* the compute pass.
SlimeNode_run(state, bg, ps) ==
    IF bg = NoBindGroup
    THEN [fatal |-> "run_missing_bind_group", dispatches |-> << >>]
    ELSE IF state = "Loading"
         THEN [fatal |-> "none", dispatches |-> << >>]
         ELSE IF get_compute_pipeline(ps)
              THEN [fatal |-> "none", dispatches |-> << <<1, 1, 1>> >>]
              ELSE [fatal |-> "run_unwrap_pipeline", dispatches |-> << >>]

\* The BindGroupDescriptor of queue_bind_group: binding 0, whole buffer.
\* `handle' records the asset the buffer was prepared for.
BindGroupOf(h, buf) ==
    [handle |-> h, buffer |-> buf.id, offset |-> 0, size |-> buf.size]

\* Mutant: absence of the prepared buffer is skipped, the old bind group kept.
queue_bind_group_skip(st, h, old) ==
    IF h \in DOMAIN st
    THEN [fatal |-> "none", built |-> TRUE, bindGroup |-> BindGroupOf(h, st[h])]
    ELSE [fatal |-> "none", built |-> FALSE, bindGroup |-> old]

\* Mutant: the bind group is built once and reused afterwards.
queue_bind_group_once(st, h, old) ==
    IF old # NoBindGroup
    THEN [fatal |-> "none", built |-> FALSE, bindGroup |-> old]
    ELSE IF h \in DOMAIN st
         THEN [fatal |-> "none", built |-> TRUE, bindGroup |-> BindGroupOf(h, st[h])]
         ELSE [fatal |-> "queue_missing_buffer", built |-> FALSE, bindGroup |-> old]

\* Mutant: the bind group is built for the first prepared asset of the store.
queue_bind_group_first(st, h, old) ==
    IF DOMAIN st # {}
    THEN LET f == CHOOSE x \in DOMAIN st : \A y \in DOMAIN st : x <= y
         IN [fatal |-> "none", built |-> TRUE, bindGroup |-> BindGroupOf(f, st[f])]
    ELSE [fatal |-> "queue_missing_buffer", built |-> FALSE, bindGroup |-> old]

\* queue_bind_group: slime_store[&slime.0] panics when the handle has no
\* prepared asset; otherwise a new bind group replaces the published one.
queue_bind_group(st, h, old) ==
    IF h \in DOMAIN st
    THEN [fatal |-> "none", built |-> TRUE, bindGroup |-> BindGroupOf(h, st[h])]
    ELSE [fatal |-> "queue_missing_buffer", built |-> FALSE, bindGroup |-> old]

\* Slime::prepare_asset: the buffer created and the write_buffer call issued.
prepare_asset(id) ==
    [buffer |-> [id |-> id, size |-> BufferAllocSize],
     write  |-> [offset |-> 0, len |-> RecordSize, size |-> BufferAllocSize]]

\* the history of observed compilation states, as a shape
HistNext(h, ps) ==
    IF h = "compiling"
    THEN IF ps = "Compiling" THEN "compiling"
         ELSE IF ps = "Ok" THEN "ready" ELSE "other"
    ELSE IF h = "ready" /\ ps = "Ok" THEN "ready" ELSE "other"

(* ---------------- the asset loader ---------------- *)

\* The fields of Slime, all required by the derived Deserialize.
FieldNames == {"value", "_padding0", "_padding1", "_padding2"}
\* Value texts of a field: tenths-denominated decimals and a non-number.
ValueTexts == {"0.5", "x"}
FieldEntry == [name : FieldNames, text : ValueTexts]

RECURSIVE SeqsUpTo(_, _)
SeqsUpTo(S, n) ==
    IF n = 0 THEN { << >> }
    ELSE LET shorter == SeqsUpTo(S, n - 1) IN
           shorter \cup { Append(q, e) : q \in { t \in shorter : Len(t) = n - 1 }, e \in S }

\* A file, as the loader's parser sees it: `(name: text, ...' and whether
\* the closing parenthesis is there.
LoaderInputs ==
    [entries : SeqsUpTo(FieldEntry, MaxEntries), closed : BOOLEAN]

\* f32 from its text, in tenths.
ParseF32(text) ==
    IF text = "0.5" THEN [ok |-> TRUE, val |-> 5]
    ELSE IF text = "0.0" THEN [ok |-> TRUE, val |-> 0]
    ELSE [ok |-> FALSE, val |-> 0]

\* The derived visitor of Slime: entry by entry; a field given twice or a
\* value that is no number is an error, and so is a field left out.
RECURSIVE visit_map(_, _, _)
visit_map(entries, i, acc) ==
    IF i > Len(entries)
    THEN IF DOMAIN acc = FieldNames
         THEN [ok |-> TRUE, rec |-> acc]
         ELSE [ok |-> FALSE, rec |-> acc]
    ELSE LET e == entries[i]
             v == ParseF32(e.text)
         IN IF e.name \in DOMAIN acc THEN [ok |-> FALSE, rec |-> acc]
            ELSE IF ~v.ok THEN [ok |-> FALSE, rec |-> acc]
            ELSE visit_map(entries, i + 1,
                           [n \in DOMAIN acc \cup {e.name} |->
                              IF n = e.name THEN v.val ELSE acc[n]])

\* ron::de::from_bytes::<Slime>
from_bytes(bytes) ==
    LET r == visit_map(bytes.entries, 1, [n \in {} |-> 0]) IN
      IF r.ok /\ bytes.closed THEN r ELSE [ok |-> FALSE, rec |-> r.rec]

\* Mutant: a decode error is replaced by what was decoded so far.
SlimeLoader_load_partial(bytes, ctx) ==
    LET d == from_bytes(bytes) IN
      IF d.ok
      THEN [result |-> "Ok", ctx |-> Append(ctx, d.rec)]
      ELSE [result |-> "Err", ctx |-> Append(ctx, d.rec)]

\* SlimeLoader::load: `?' returns the decode error before anything is
\* registered; otherwise the record becomes the default asset.
SlimeLoader_load(bytes, ctx) ==
    LET d == from_bytes(bytes) IN
      IF d.ok
      THEN [result |-> "Ok", ctx |-> Append(ctx, d.rec)]
      ELSE [result |-> "Err", ctx |-> ctx]

(* ---------------- initial state ---------------- *)

\* After App construction and the startup system `setup': one default Slime
\* asset, its handle in the main world; the render world holds the queued
\* pipeline and a node in Loading.
WorldInit ==
    /\ pc = "main"
    /\ frame = 0
    /\ fatal = "none"
    /\ assets = {1}
    /\ mainHandle = 1
    /\ renderHandle = 0
    /\ store = [h \in {} |-> [id |-> 0, size |-> 0]]
    /\ nextBuf = 1
    /\ lastWrite = NoWrite
    /\ bindGroup = NoBindGroup
    /\ cache = "Queued"
    /\ nodeState = "Loading"
    /\ dispatches = << >>
    /\ observed = "Queued"
    /\ everReady = FALSE
    /\ hist = "compiling"
    /\ readyFrame = 0
    /\ totalDispatched = 0
    /\ built = 0
    /\ published = {}
    /\ extracted = {}

\* The program as built: no render-asset plugin for Slime; main.rs
\* registers the loader and loads no .slime file.
Init ==
    /\ WorldInit
    /\ assetPlugin = FALSE
    /\ loadPc = "idle"
    /\ loadBytes = [entries |-> << >>, closed |-> TRUE]
    /\ loadResult = "none"
    /\ loadCtx = << >>

\* The asset server calls SlimeLoader::load on the bytes of a .slime file.
InitLoader ==
    /\ WorldInit
    /\ assetPlugin = FALSE
    /\ loadPc = "start"
    /\ loadBytes \in LoaderInputs
    /\ loadResult = "none"
    /\ loadCtx = << >>

\* Harness: the program as built, or with the RenderAssetPlugin::<Slime>
\* that the design document's preparation step needs and main.rs lacks.
InitHost ==
    /\ WorldInit
    /\ assetPlugin \in BOOLEAN
    /\ loadPc = "idle"
    /\ loadBytes = [entries |-> << >>, closed |-> TRUE]
    /\ loadResult = "none"
    /\ loadCtx = << >>

(* ---------------- actions ---------------- *)

\* Harness, main world between frames: the host adds another asset and
\* replaces SlimeHandle by its handle, as the body of `setup' does for the
\* first.  main.rs itself runs setup once, at startup (WorldInit).
HostLoadAsset ==
    /\ pc = "main" /\ fatal = "none"
    /\ assetPlugin
    /\ Cardinality(assets) < MaxHandles
    /\ LET h == Cardinality(assets) + 1 IN
         /\ assets' = assets \cup {h}
         /\ mainHandle' = h
    /\ UNCHANGED << pc, frame, fatal, renderHandle, cache, everReady, extracted >>
    /\ UNCHANGED << assetVars, nodeVars, bindVars >>
    /\ UNCHANGED loaderVars

\* Mutant: the node is constructed anew (SlimeNode::default) for every frame.
BeginFrame_fresh_node ==
    /\ pc = "main" /\ fatal = "none"
    /\ frame < MaxFrame
    /\ frame' = frame + 1
    /\ pc' = "extract"
    /\ nodeState' = "Loading"
    /\ UNCHANGED << fatal, mainVars, renderHandle, cache, everReady, extracted >>
    /\ UNCHANGED << dispatches, observed, hist, readyFrame, totalDispatched >>
    /\ UNCHANGED << assetVars, bindVars >>
    /\ UNCHANGED loaderVars

\* The frame boundary: the main world's update is over, the render stages start.
BeginFrame ==
    /\ pc = "main" /\ fatal = "none"
    /\ frame < MaxFrame
    /\ frame' = frame + 1
    /\ pc' = "extract"
    /\ UNCHANGED << fatal, mainVars, renderHandle, cache, everReady, extracted >>
    /\ UNCHANGED << assetVars, nodeVars, bindVars >>
    /\ UNCHANGED loaderVars

\* Mutant: the handle is extracted only while the render world has none.
Extract_once ==
    /\ pc = "extract" /\ fatal = "none"
    /\ renderHandle' = IF renderHandle = 0 THEN mainHandle ELSE renderHandle
    /\ extracted' = extracted \cup {renderHandle'}
    /\ pc' = "prepare"
    /\ UNCHANGED << frame, fatal, mainVars, assetVars, cache, everReady >>
    /\ UNCHANGED << nodeVars, bindVars >>
    /\ UNCHANGED loaderVars

\* Extract stage: ExtractResourcePlugin<SlimeHandle> clones the handle into
\* the render world; extract_slime does nothing.
Extract ==
    /\ pc = "extract" /\ fatal = "none"
    /\ renderHandle' = mainHandle
    /\ extracted' = extracted \cup {mainHandle}
    /\ pc' = "prepare"
    /\ UNCHANGED << frame, fatal, mainVars, assetVars, cache, everReady >>
    /\ UNCHANGED << nodeVars, bindVars >>
    /\ UNCHANGED loaderVars

\* Harness, Prepare stage: the host's render-asset plugin extracts one
\* unprepared asset (extract_asset, a clone) and calls prepare_asset on it.
\* A write that does not fit the buffer is a device validation error: the
\* device either raises it (fatal) or drops the write and the asset is
\* stored.  main.rs registers nothing that makes this call.
HostPrepareAsset ==
    /\ pc = "prepare" /\ fatal = "none"
    /\ assetPlugin
    /\ \E h \in assets \ DOMAIN store :
         LET r == prepare_asset(nextBuf) IN
           /\ lastWrite' = r.write
           /\ nextBuf' = nextBuf + 1
           /\ \/ /\ store' = [x \in DOMAIN store \cup {h} |->
                                 IF x = h THEN r.buffer ELSE store[x]]
                 /\ fatal' = "none"
              \/ /\ r.write.offset + r.write.len > r.write.size
                 /\ fatal' = "write_buffer_overrun"
                 /\ UNCHANGED store
    /\ UNCHANGED << pc, frame, mainVars, renderHandle, cache, everReady, extracted,
                    assetPlugin >>
    /\ UNCHANGED << nodeVars, bindVars >>
    /\ UNCHANGED loaderVars

\* The Prepare stage ends; main.rs has no system in it.
PrepareDone ==
    /\ pc = "prepare" /\ fatal = "none"
    /\ pc' = "queue"
    /\ UNCHANGED << frame, fatal, mainVars, renderHandle, cache, everReady, extracted >>
    /\ UNCHANGED << assetVars, nodeVars, bindVars >>
    /\ UNCHANGED loaderVars

\* Queue stage: the system queue_bind_group.  Without the plugin the render
\* world has no RenderAssets<Slime> and fetching Res<RenderAssets<Slime>>
\* panics before the body runs.
Queue ==
    /\ pc = "queue" /\ fatal = "none"
    /\ LET r == IF assetPlugin
                THEN queue_bind_group(store, renderHandle, bindGroup)
                ELSE [fatal |-> "queue_missing_resource", built |-> FALSE,
                      bindGroup |-> bindGroup] IN
         /\ fatal' = r.fatal
         /\ bindGroup' = r.bindGroup
         /\ built' = IF r.built THEN built + 1 ELSE built
         /\ published' = IF r.built THEN published \cup {r.bindGroup.handle}
                         ELSE published
         /\ pc' = IF r.fatal = "none" THEN "process" ELSE pc
    /\ UNCHANGED << frame, mainVars, renderHandle, cache, everReady, extracted >>
    /\ UNCHANGED << assetVars, nodeVars >>
    /\ UNCHANGED loaderVars

\* Render stage, before the graph runs: the pipeline cache processes its
\* queue; the state of the pipeline queued by SlimePipeline::from_world is
\* whatever the compiler reports this frame.
ProcessPipelineQueue ==
    /\ pc = "process" /\ fatal = "none"
    /\ \E ps \in PipelineStates :
         /\ cache' = ps
         /\ everReady' = (everReady \/ ps = "Ok")
    /\ pc' = "update"
    /\ UNCHANGED << frame, fatal, mainVars, renderHandle, extracted >>
    /\ UNCHANGED << assetVars, nodeVars, bindVars >>
    /\ UNCHANGED loaderVars

\* Render graph: SlimeNode::update.
Update ==
    /\ pc = "update" /\ fatal = "none"
    /\ nodeState' = SlimeNode_update(nodeState, cache)
    /\ observed' = cache
    /\ hist' = HistNext(hist, cache)
    /\ readyFrame' = IF hist = "compiling" /\ cache = "Ok" THEN frame ELSE readyFrame
    /\ pc' = "run"
    /\ UNCHANGED << frame, fatal, mainVars, renderHandle, cache, everReady, extracted,
                    dispatches, totalDispatched >>
    /\ UNCHANGED << assetVars, bindVars >>
    /\ UNCHANGED loaderVars

\* Mutant: run takes the bind group out of the world instead of borrowing it.
Run_takes_bind_group ==
    /\ pc = "run" /\ fatal = "none"
    /\ LET r == SlimeNode_run(nodeState, bindGroup, cache) IN
         /\ fatal' = r.fatal
         /\ dispatches' = r.dispatches
         /\ totalDispatched' = totalDispatched + Len(r.dispatches)
         /\ pc' = IF r.fatal = "none" THEN "main" ELSE pc
    /\ bindGroup' = NoBindGroup
    /\ UNCHANGED << frame, mainVars, renderHandle, cache, everReady, extracted,
                    nodeState, observed, hist, readyFrame >>
    /\ UNCHANGED << assetVars, built, published >>
    /\ UNCHANGED loaderVars

\* Render graph: SlimeNode::run.  A completed run ends the frame.
Run ==
    /\ pc = "run" /\ fatal = "none"
    /\ LET r == SlimeNode_run(nodeState, bindGroup, cache) IN
         /\ fatal' = r.fatal
         /\ dispatches' = r.dispatches
         /\ totalDispatched' = totalDispatched + Len(r.dispatches)
         /\ pc' = IF r.fatal = "none" THEN "main" ELSE pc
    /\ UNCHANGED << frame, mainVars, renderHandle, cache, everReady, extracted,
                    nodeState, observed, hist, readyFrame >>
    /\ UNCHANGED << assetVars, bindVars >>
    /\ UNCHANGED loaderVars

Next ==
    \/ BeginFrame
    \/ Extract
    \/ PrepareDone
    \/ Queue
    \/ ProcessPipelineQueue
    \/ Update
    \/ Run

\* The program as built.
Spec == Init /\ [][Next]_vars

NextHost ==
    \/ Next
    \/ HostLoadAsset
    \/ HostPrepareAsset

\* The frame loop of the design document: the program's stages, and a host
\* that prepares Slime assets when the plugin is installed.
SpecHost == InitHost /\ [][NextHost]_vars

\* One call of SlimeLoader::load.
Load ==
    /\ loadPc = "start"
    /\ LET r == SlimeLoader_load(loadBytes, loadCtx) IN
         /\ loadResult' = r.result
         /\ loadCtx' = r.ctx
    /\ loadPc' = "done"
    /\ UNCHANGED << pc, frame, fatal, mainVars, renderHandle, cache, everReady,
                    extracted, loadBytes >>
    /\ UNCHANGED << assetVars, nodeVars, bindVars >>

NextLoader == Load

\* The loader on its own, for every file up to MaxEntries entries.
SpecLoader == InitLoader /\ [][NextLoader]_vars

\* The host runs frame after frame and every stage of a frame: no enabled
\* step is postponed forever.
FairSpecHost == SpecHost /\ WF_vars(NextHost)

TypeOK ==
    /\ pc \in {"main", "extract", "prepare", "queue", "process", "update", "run"}
    /\ frame \in 0..MaxFrame
    /\ fatal \in {"none", "write_buffer_overrun", "queue_missing_resource",
                  "queue_missing_buffer",
                  "run_missing_bind_group", "run_unwrap_pipeline"}
    /\ assets \subseteq Handles
    /\ mainHandle \in assets
    /\ renderHandle \in assets \cup {0}
    /\ assetPlugin \in BOOLEAN
    /\ DOMAIN store \subseteq assets
    /\ cache \in PipelineStates
    /\ nodeState \in {"Loading", "Update"}

(* ---------------- properties ---------------- *)

\* a run call has returned or panicked in the current frame
RunReturned == pc = "main" /\ frame >= 1 /\ fatal = "none"
RunPanicked == fatal \in {"run_missing_bind_group", "run_unwrap_pipeline"}
\* queue_bind_group has returned in the current frame
QueueReturned ==
    \/ pc \in {"process", "update", "run"}
    \/ pc = "main" /\ frame >= 1

\* C1: the node starts in Loading, its state changes only from Loading to
\* Update (in SlimeNode::update), and a node in Update stays in Update over
\* every later step, whatever compilation states the cache reports.
C1_StateMonotone ==
    /\ nodeState = "Loading"
    /\ [][/\ nodeState = "Update" => nodeState' = "Update"
          /\ nodeState' # nodeState => pc = "update"]_vars
\* a node in Update went through a later update that saw a non-Ready state
C1_Witness ==
    nodeState = "Update" /\ pc = "run" /\ observed # "Ok" /\ totalDispatched >= 1

\* C2: a run call records a dispatch if and only if the compilation state at
\* the most recent update call was Ok.
C2_DispatchIffReady ==
    (RunReturned \/ RunPanicked) => (dispatches # << >> <=> observed = "Ok")
C2_Witness ==
    RunReturned /\ frame >= 2 /\ dispatches # << >> /\ observed = "Ok"

\* C3: as long as the cache has never reported Ok the node is in Loading and
\* nothing was dispatched; an update that sees a non-Ok state leaves a
\* Loading node in Loading.
C3_NeverReadyStaysLoading ==
    /\ [](~everReady => (nodeState = "Loading" /\ totalDispatched = 0))
    /\ [][(pc = "update" /\ nodeState = "Loading" /\ cache # "Ok")
            => nodeState' = "Loading"]_vars
C3_Witness ==
    RunReturned /\ frame >= 3 /\ ~everReady /\ observed = "Err"
      /\ nodeState = "Loading" /\ dispatches = << >>

\* C4: with frames run as update then run: while every update so far saw
\* Compiling nothing was dispatched; from the first frame whose update sees
\* Ok, and as long as Ok is seen, the node is in Update and every run records
\* exactly one dispatch of (1,1,1).
C4_Scenario ==
    RunReturned =>
      /\ hist = "compiling" => (nodeState = "Loading" /\ totalDispatched = 0)
      /\ hist = "ready" =>
           /\ nodeState = "Update"
           /\ dispatches = << <<1, 1, 1>> >>
           /\ totalDispatched = frame - readyFrame + 1
\* ten frames of Compiling, Ok in frame 11, and frame 12 has run too
C4_Witness ==
    RunReturned /\ hist = "ready" /\ readyFrame = 11 /\ frame = 12
      /\ totalDispatched = 2 /\ dispatches = << <<1, 1, 1>> >>

\* C5: no per-frame phase panics because a resource is not ready: neither
\* queue_bind_group on a handle without prepared buffer nor run without a
\* published bind group.
C5_NoFatalOnNotReady ==
    fatal \notin {"queue_missing_resource", "queue_missing_buffer",
                  "run_missing_bind_group"}

\* C6: queue_bind_group, run while the store has no buffer for the extracted
\* handle, returns having built no bind group and with the published bind
\* group unchanged.
C6_SkipWhenAbsent ==
    [][(pc = "queue" /\ fatal = "none" /\ renderHandle \notin DOMAIN store)
         => (fatal' = "none" /\ bindGroup' = bindGroup /\ built' = built)]_vars

\* C7 as stated: in every state in which a bind group is published (so
\* preparation has occurred and queue_bind_group has run) and the extracted
\* handle is prepared, the bind group binds the buffer that prepare_asset
\* produced for the extracted handle.  It fails between the Extract stage of
\* a frame that extracts a changed handle and that frame's queue_bind_group:
\* the published bind group is still the previous frame's.
C7_BindGroupBufferAlways ==
    (bindGroup # NoBindGroup /\ renderHandle \in DOMAIN store) =>
      /\ bindGroup.buffer = store[renderHandle].id
      /\ bindGroup.offset = 0
\* C7, amended: from the return of queue_bind_group in a frame to the end of
\* that frame, the published bind group binds the buffer that prepare_asset
\* produced for the handle extracted in that frame.
C7_BindGroupBuffer ==
    (QueueReturned /\ bindGroup # NoBindGroup) =>
      /\ renderHandle \in DOMAIN store
      /\ bindGroup.buffer = store[renderHandle].id
      /\ bindGroup.offset = 0
\* the handle changed between frames and the bind group followed it
C7_Witness ==
    /\ pc = "update" /\ renderHandle = 2 /\ 1 \in published
    /\ 2 \in DOMAIN store /\ bindGroup.buffer = store[2].id

\* C8: when run executes with the node in Update, a bind group is published.
C8_BindGroupAtRun ==
    (pc = "run" /\ nodeState = "Update") => bindGroup # NoBindGroup
C8_Witness ==
    pc = "run" /\ fatal = "none" /\ nodeState = "Update" /\ observed = "Ok"
      /\ bindGroup # NoBindGroup /\ frame = 1

\* C9: bind groups are built only for the handle most recently extracted: a
\* handle replaced in the main world before it was extracted never gets a
\* bind group, and after the queue stage the published bind group is the
\* one of the extracted handle.
C9_LastHandleWins ==
    /\ published \subseteq extracted
    /\ (QueueReturned /\ bindGroup # NoBindGroup) => bindGroup.handle = renderHandle
\* two handles set before the first frame; both prepared, only the second bound
C9_Witness ==
    /\ assets = {1, 2} /\ 1 \notin extracted /\ 1 \in DOMAIN store
    /\ published = {2} /\ bindGroup.handle = 2

\* C10: the buffer allocated by prepare_asset has the size of the record, so
\* the write of the record at offset 0 ends inside the buffer.
C10_WriteInBounds ==
    /\ \A h \in DOMAIN store : store[h].size = RecordSize
    /\ lastWrite # NoWrite =>
         /\ lastWrite.len = RecordSize
         /\ lastWrite.offset + lastWrite.len <= lastWrite.size

\* C11 (as stated): queue_bind_group builds a bind group only when the
\* buffer to bind differs from the one of the published bind group, so a
\* run with one unreplaced buffer sees one build.
C11_BuiltOnlyOnChange ==
    [][(bindGroup # NoBindGroup /\ built' > built)
         => bindGroup'.buffer # bindGroup.buffer]_vars

\* C11 (amended): queue_bind_group builds and publishes a bind group in
\* every frame whose queue stage returns, one per frame; the published
\* bind group differs from the previous one only when the bound buffer
\* differs.
C11_BuiltEveryFrame ==
    /\ [](fatal = "none" =>
            built = IF QueueReturned THEN frame
                    ELSE IF frame = 0 THEN 0 ELSE frame - 1)
    /\ [][(bindGroup # NoBindGroup /\ bindGroup' # bindGroup)
            => bindGroup'.buffer # bindGroup.buffer]_vars
\* three frames, three builds, one buffer
C11_Witness ==
    pc = "process" /\ frame = 3 /\ built = 3 /\ published = {1}
      /\ bindGroup.buffer = store[1].id

\* C13: the node state is written only by update, the published bind group
\* only by queue_bind_group, the prepared buffers only by prepare_asset; run
\* writes none of them.
C13_SingleWriter ==
    [][/\ nodeState' # nodeState => pc = "update"
       /\ bindGroup' # bindGroup => pc = "queue"
       /\ store' # store => pc = "prepare"
       /\ pc = "run" => /\ nodeState' = nodeState
                        /\ bindGroup' = bindGroup
                        /\ store' = store]_vars
\* a second run has dispatched and the shared values are still there
C13_Witness ==
    RunReturned /\ frame >= 2 /\ totalDispatched >= 2 /\ nodeState = "Update"
      /\ bindGroup # NoBindGroup /\ renderHandle \in DOMAIN store

\* the order of the stages of a frame
StageOrder ==
    { <<"main", "extract">>, <<"extract", "prepare">>, <<"prepare", "queue">>,
      <<"queue", "process">>, <<"process", "update">>, <<"update", "run">>,
      <<"run", "main">> }

\* C14: the stages of a frame run in the order extract, prepare (resource
\* lookup), queue (bind-group construction), update, run; the bind group
\* that run reads was published by the queue stage of the same frame; the
\* node state and the bind group are carried unchanged over the frame
\* boundary.
C14_FrameOrder ==
    /\ [][/\ pc' # pc => << pc, pc' >> \in StageOrder
          /\ pc = "main" => (nodeState' = nodeState /\ bindGroup' = bindGroup)]_vars
    /\ [](pc = "run" =>
            (built = frame /\ bindGroup # NoBindGroup
               /\ bindGroup.handle = renderHandle))
\* a later frame starts with the node in Update and a bind group published
C14_Witness ==
    pc = "extract" /\ frame >= 2 /\ nodeState = "Update"
      /\ bindGroup # NoBindGroup /\ built = frame - 1

\* C15: after the extract stage the render world's SlimeHandle is the main
\* world's SlimeHandle, prepared or not.
C15_HandleExtracted ==
    pc \in {"prepare", "queue", "process", "update", "run"}
      => renderHandle = mainHandle
\* the handle changed after the first frame and its asset is not prepared
C15_Witness ==
    pc = "prepare" /\ frame >= 2 /\ 1 \in extracted /\ renderHandle = 2
      /\ mainHandle = 2 /\ 2 \notin DOMAIN store

\* C16: once the node is in Update the unwrap of get_compute_pipeline in run
\* never fails, whatever the cache reports; and nothing is dispatched while
\* the cache is not Ok.
C16_UnwrapNeverFails ==
    /\ fatal # "run_unwrap_pipeline"
    /\ (RunReturned /\ dispatches # << >>) => cache = "Ok"

\* C17: if from some frame on the cache reports Ok, and a bind group is
\* published, then from some point on the node is in Update and every run
\* that returns has recorded its one dispatch.
C17_EventuallyDispatching ==
    (<>[](cache = "Ok") /\ <>(bindGroup # NoBindGroup))
      => <>[](nodeState = "Update"
                /\ (RunReturned => dispatches = << <<1, 1, 1>> >>))
C17_Witness ==
    RunReturned /\ frame >= 3 /\ cache = "Ok" /\ nodeState = "Update"
      /\ readyFrame = 2 /\ hist = "ready"
      /\ dispatches = << <<1, 1, 1>> >> /\ totalDispatched = frame - 1

\* C18: the buffer range bound at binding 0 (whole buffer from offset 0) is
\* at least the min_binding_size of the bind-group layout.
C18_MinBindingSize ==
    bindGroup # NoBindGroup => bindGroup.size - bindGroup.offset >= MinBindingSize

\* the file has every field of Slime once, each with a number, and is closed
Decodable(bytes) ==
    /\ bytes.closed
    /\ \A i \in 1..Len(bytes.entries) : bytes.entries[i].text # "x"
    /\ \A n \in FieldNames :
         Cardinality({ i \in 1..Len(bytes.entries) : bytes.entries[i].name = n }) = 1

\* C12: load on bytes that do not decode returns an error and registers
\* nothing; on bytes that decode it returns Ok and registers exactly one
\* default asset; a registered record always has all its fields.
C12_LoadAllOrNothing ==
    /\ loadPc = "start" => (loadResult = "none" /\ loadCtx = << >>)
    /\ loadPc = "done" =>
         /\ Decodable(loadBytes) => (loadResult = "Ok" /\ Len(loadCtx) = 1)
         /\ ~Decodable(loadBytes) => (loadResult = "Err" /\ loadCtx = << >>)
    /\ \A i \in 1..Len(loadCtx) : DOMAIN loadCtx[i] = FieldNames
\* a file that gives three of the four fields: an error, nothing registered
C12_Witness ==
    /\ loadPc = "done" /\ loadBytes.closed /\ Len(loadBytes.entries) = 3
    /\ \A i \in 1..3 : loadBytes.entries[i].text = "0.5"
    /\ Cardinality({ loadBytes.entries[i].name : i \in 1..3 }) = 3
    /\ loadResult = "Err" /\ loadCtx = << >>

====
